---- MODULE Spec2Model ----
(***************************************************************************)
(* Model of the search_acls scripts:                                       *)
(*   1_add_acls_unique.py  generate_acl_array                              *)
(*   3_atlas_search.py     lexical search with ACL filter and fallback     *)
(*   4_vector_search.py    vector search with ACL filter and fallback      *)
(*   5_rank_fusion.py      native $rankFusion of the two searches          *)
(*   2_create_indexes.py   index creation and wait_for_indexes             *)
(* The document store and the embedding provider are external: every call  *)
(* to them either returns or raises, chosen nondeterministically.          *)
(***************************************************************************)
EXTENDS Integers, Sequences, FiniteSets, TLC

VARIABLES
    script,            \* which script this run executes
    pc,                \* position of the script
    corpus,            \* documents of the collection, in natural order (find_one: the first)
    query_embedding,   \* "None", "[]" or "embedding"
    embedLog,          \* outcomes of the calls to the embedding provider
    issued,            \* aggregate() calls made so far, with their outcome
    results,           \* list returned by the first aggregate
    fallback_results,  \* list returned by the fallback aggregate
    output,            \* lines printed so far
    exitCode,          \* "running", "0", "1" or "traceback"
    gen_pc,            \* position inside generate_acl_array
    length,            \* generate_acl_array: target length
    acl_set,           \* generate_acl_array: the set being filled
    acl_array,         \* generate_acl_array: the returned list
    vectorList,        \* $rankFusion: ranked ids of the vectorSearch input
    textList,          \* $rankFusion: ranked ids of the textSearch input
    top_k,             \* $rankFusion: the $limit after the stage
    fused,             \* $rankFusion: the ranked ids returned
    fusion_pc,         \* "idle", "input" or "fused"
    job_pc,            \* bulk job main(): "idle", "count", "loop", "verify" or "done"
    total_docs,        \* bulk job: documents of the collection (count_documents)
    operations,        \* bulk job: documents read from the cursor so far
    batch_operations,  \* bulk job: the pending batch of updates
    submitted,         \* bulk job: bulk_write calls made so far, with their outcome
    store,             \* bulk job: ids of the documents whose ACLs the backend has set
    job_output,        \* bulk job: lines printed so far
    job_status,        \* bulk job: "running", "completed", "aborted" or "traceback"
    idx_pc,            \* index script: position of main() / wait_for_indexes
    entry,             \* index script: "main" or a direct call of "wait_for_indexes"
    run,               \* index script: how many times the script has been started
    backend,           \* index script: the search indexes of the collection
    calls,             \* index script: create_*_index calls of this run's index creation, with what they saw
    create_requests,   \* index script: create requests this run's index creation submitted
    search_success,    \* index script: result of create_search_index ("unset", "True", "False")
    vector_success,    \* index script: result of create_vector_index ("unset", "True", "False")
    timeout_minutes,   \* wait_for_indexes: the caller's timeout
    elapsed,           \* wait_for_indexes: time.time() - start_time, in seconds
    polled,            \* wait_for_indexes: the listing read by the last poll
    last_poll,         \* wait_for_indexes: "none", "ready", "notready" or "error"
    wait_result        \* wait_for_indexes: "unset", "True" or "False"

vars == <<script, pc, corpus, query_embedding, embedLog, issued, results,
          fallback_results, output, exitCode, gen_pc, length, acl_set, acl_array,
          vectorList, textList, top_k, fused, fusion_pc,
          job_pc, total_docs, operations, batch_operations, submitted, store,
          job_output, job_status,
          idx_pc, entry, run, backend, calls, create_requests, search_success,
          vector_success, timeout_minutes, elapsed, polled, last_poll,
          wait_result>>

searchVars == <<script, pc, corpus, query_embedding, embedLog, issued, results,
                fallback_results, output, exitCode>>

genVars == <<gen_pc, length, acl_set, acl_array>>

fusionVars == <<vectorList, textList, top_k, fused, fusion_pc>>

jobVars == <<job_pc, total_docs, operations, batch_operations, submitted, store,
             job_output, job_status>>

indexVars == <<idx_pc, entry, run, backend, calls, create_requests, search_success,
               vector_success, timeout_minutes, elapsed, polled, last_poll,
               wait_result>>

\* what each part of the model leaves alone
nonSearchVars == <<genVars, fusionVars, jobVars, indexVars>>

nonGenVars == <<searchVars, fusionVars, jobVars, indexVars>>

nonFusionVars == <<searchVars, genVars, jobVars, indexVars>>

nonJobVars == <<searchVars, genVars, fusionVars, indexVars>>

nonIndexVars == <<searchVars, genVars, fusionVars, jobVars>>

(***************************************************************************)
(* Bounds of the model                                                     *)
(***************************************************************************)
MaxDocs == 2

MaxFusionIds == 3

MaxTotalDocs == 2001

MaxFailed == 2

(***************************************************************************)
(* Documents: the two ACL attributes the filters read, and the plot and    *)
(* fullplot fields the scripts slice ("None" makes the slice raise).  The  *)
(* text operator searches fullplot: "match" is a text with a term of the   *)
(* query, "fuzzy" a text whose only matches are within the edits of the    *)
(* fuzzy option, "nomatch" a text with none.  Every document has a         *)
(* plot_embedding.                                                         *)
(***************************************************************************)
Acl1Sets == {{}, {17}, {17, 556, 999}, {83, 358}}

Acl2Sets == {{83}, {83, 358}}

\* documents whose plot is None: one the filters accept, one they reject
NonePlotDocs ==
    { [ACL1 |-> {17, 556, 999}, ACL2 |-> {83, 358}, plot |-> "None", fullplot |-> "match"],
      [ACL1 |-> {}, ACL2 |-> {83}, plot |-> "None", fullplot |-> "match"] }

\* documents whose fullplot is None: one the filters accept, one they reject
NoneFullplotDocs ==
    { [ACL1 |-> {17, 556, 999}, ACL2 |-> {83, 358}, plot |-> "str", fullplot |-> "None"],
      [ACL1 |-> {}, ACL2 |-> {83}, plot |-> "str", fullplot |-> "None"] }

\* documents whose fullplot has no term of the query
NoMatchDocs ==
    { [ACL1 |-> {17, 556, 999}, ACL2 |-> {83, 358}, plot |-> "str", fullplot |-> "nomatch"],
      [ACL1 |-> {}, ACL2 |-> {83}, plot |-> "str", fullplot |-> "nomatch"] }

\* documents whose fullplot matches the query only through the fuzzy option
FuzzyDocs ==
    { [ACL1 |-> {17, 556, 999}, ACL2 |-> {83, 358}, plot |-> "str", fullplot |-> "fuzzy"],
      [ACL1 |-> {}, ACL2 |-> {83}, plot |-> "str", fullplot |-> "fuzzy"] }

Docs ==
    [ACL1 : Acl1Sets, ACL2 : Acl2Sets, plot : {"str"}, fullplot : {"match"}]
        \cup NonePlotDocs \cup NoneFullplotDocs \cup NoMatchDocs \cup FuzzyDocs

RECURSIVE SeqsUpTo(_, _)
SeqsUpTo(S, n) ==
    IF n = 0 THEN {<<>>}
    ELSE LET shorter == SeqsUpTo(S, n - 1)
         IN  shorter \cup {Append(s, x) : s \in {t \in shorter : Len(t) = n - 1}, x \in S}

Corpora == SeqsUpTo(Docs, MaxDocs)

\* outcomes of one call to the document store or to the embedding provider
BackendOutcomes == {"ok", "unsupported", "transient", "connectivity"}

\* the embedding request returns a vector, raises, or returns an empty vector
EmbedOutcomes == {"ok", "error", "empty"}

(***************************************************************************)
(* The filters, as written in the scripts                                  *)
(***************************************************************************)
must ==
    << [path |-> "ACL1", value |-> 17],
       [path |-> "ACL1", value |-> 556],
       [path |-> "ACL2", value |-> 83],
       [path |-> "ACL2", value |-> 358] >>

vector_filter ==
    << [path |-> "ACL1", vals |-> {17}],
       [path |-> "ACL1", vals |-> {556}],
       [path |-> "ACL2", vals |-> {83}],
       [path |-> "ACL2", vals |-> {358}] >>

\* a mistyped value in the lexical copy of the filter
rf_must_typo ==
    << [path |-> "ACL1", value |-> 17],
       [path |-> "ACL1", value |-> 556],
       [path |-> "ACL2", value |-> 83],
       [path |-> "ACL2", value |-> 385] >>

rf_must ==
    << [path |-> "ACL1", value |-> 17],
       [path |-> "ACL1", value |-> 556],
       [path |-> "ACL2", value |-> 83],
       [path |-> "ACL2", value |-> 358] >>

rf_vector_filter ==
    << [path |-> "ACL1", vals |-> {17}],
       [path |-> "ACL1", vals |-> {556}],
       [path |-> "ACL2", vals |-> {83}],
       [path |-> "ACL2", vals |-> {358}] >>

(***************************************************************************)
(* Filter evaluation by the backend.  The Atlas Search "in" operator on an *)
(* array field matches when the array holds the value; the MQL "$in" on an *)
(* array field matches when the array holds one of the listed values.      *)
(* compound.must and $and require every clause.                            *)
(***************************************************************************)
InClause(doc, c) == c.value \in doc[c.path]

PassesMust(doc, m) == \A i \in 1..Len(m) : InClause(doc, m[i])

MqlIn(doc, c) == doc[c.path] \cap c.vals # {}

PassesAnd(doc, f) == \A i \in 1..Len(f) : MqlIn(doc, f[i])

(***************************************************************************)
(* Pipelines handed to collection.aggregate.  A pipeline is a record of    *)
(* its search stages (one, or the two inputs of $rankFusion) and its final *)
(* $limit.  A $search stage with the filter is a compound of the must      *)
(* clauses and the text clause under should; without the filter the text   *)
(* operator is the stage's only operator.                                  *)
(***************************************************************************)
SearchStage(hasFilter, m, lim) ==
    [op |-> "$search", hasFilter |-> hasFilter, must |-> m, filter |-> <<>>,
     text |-> IF hasFilter THEN "should" ELSE "operator", fuzzy |-> hasFilter,
     numCandidates |-> 0, limit |-> lim, queryVector |-> "None"]

VectorStage(hasFilter, f, cand, lim) ==
    [op |-> "$vectorSearch", hasFilter |-> hasFilter, must |-> <<>>, filter |-> f,
     text |-> "none", fuzzy |-> FALSE,
     numCandidates |-> cand, limit |-> lim, queryVector |-> query_embedding]

\* the must clauses not applied: only the text operator selects
atlas_pipeline_should ==
    [fusion |-> FALSE, subs |-> << SearchStage(FALSE, must, 5) >>, limit |-> 5]

atlas_pipeline ==
    [fusion |-> FALSE, subs |-> << SearchStage(TRUE, must, 5) >>, limit |-> 5]

atlas_pipeline_no_filter ==
    [fusion |-> FALSE, subs |-> << SearchStage(FALSE, <<>>, 5) >>, limit |-> 5]

vector_pipeline ==
    [fusion |-> FALSE, subs |-> << VectorStage(TRUE, vector_filter, 100, 5) >>, limit |-> 5]

vector_pipeline_no_filter ==
    [fusion |-> FALSE, subs |-> << VectorStage(FALSE, <<>>, 100, 5) >>, limit |-> 5]

\* numCandidates below the limit of the vector input
rank_fusion_pipeline_fewCandidates ==
    [fusion |-> TRUE,
     subs   |-> << VectorStage(TRUE, rf_vector_filter, 10, 20),
                   SearchStage(TRUE, rf_must, 20) >>,
     limit  |-> 5]

rank_fusion_pipeline ==
    [fusion |-> TRUE,
     subs   |-> << VectorStage(TRUE, rf_vector_filter, 100, 20),
                   SearchStage(TRUE, rf_must, 20) >>,
     limit  |-> 5]

\* every ordering of a finite set (also list(acl_set), whose order the language
\* leaves unspecified)
RECURSIVE ListsOf(_)
ListsOf(S) ==
    IF S = {} THEN {<<>>}
    ELSE UNION {{<<x>> \o l : l \in ListsOf(S \ {x})} : x \in S}

(***************************************************************************)
(* What the backend returns for a pipeline it accepts                      *)
(***************************************************************************)
Take(s, n) == IF Len(s) <= n THEN s ELSE SubSeq(s, 1, n)

\* the text operator on fullplot: a null fullplot or one without a term of the
\* query does not match; with the fuzzy option a term within the edits of a
\* query term matches too
TextMatches(doc, fuzzy) ==
    doc.fullplot = "match" \/ (fuzzy /\ doc.fullplot = "fuzzy")

\* the documents a stage selects.  In a compound with must clauses the should
\* clause is optional: it scores and does not select.
StageMatches(doc, st) ==
    IF st.op = "$search"
    THEN IF st.text = "should" THEN PassesMust(doc, st.must) ELSE TextMatches(doc, st.fuzzy)
    ELSE IF st.hasFilter THEN PassesAnd(doc, st.filter) ELSE TRUE

\* positions in the collection of the documents a stage selects
MatchingIds(st) == {i \in 1..Len(corpus) : StageMatches(corpus[i], st)}

\* the backend ranks by score: in a $search a document matching the text
\* clause (by a term of the query, or by a fuzzy expansion of one) scores above
\* one that does not; the order among the matches (text relevance) and the
\* order of a $vectorSearch (similarity) are the backend's
RankingOk(st, l) ==
    st.op = "$search" =>
        \A i \in 1..Len(l) : \A j \in (i + 1)..Len(l) :
            TextMatches(corpus[l[j]], st.fuzzy) => TextMatches(corpus[l[i]], st.fuzzy)

\* the ranked lists of positions a stage can return
StageRankings(st) ==
    {Take(l, st.limit) : l \in {m \in ListsOf(MatchingIds(st)) : RankingOk(st, m)}}

DocsAt(l) == [k \in 1..Len(l) |-> corpus[l[k]]]

\* the lists aggregate can return for a single-stage pipeline: its stage, then $limit
Aggregate(p) == {Take(DocsAt(l), p.limit) : l \in StageRankings(p.subs[1])}

(***************************************************************************)
(* $rankFusion: reciprocal rank fusion of the input pipelines, each with   *)
(* weight 1.  A document at 1-based rank r of an input gets 1/(60 + r)     *)
(* from it, nothing from an input it is absent from; the output is ordered *)
(* by descending sum, documents of equal sum in an order the backend does  *)
(* not fix.  Scores are fractions <<numerator, denominator>>.              *)
(***************************************************************************)
RankConstant == 60

RankIn(d, l) == IF \E i \in 1..Len(l) : l[i] = d THEN CHOOSE i \in 1..Len(l) : l[i] = d ELSE 0

\* the rank used as the score, without the reciprocal
RRFScore_noReciprocal(d, a, b) == <<RankIn(d, a) + RankIn(d, b), 1>>

RRFScore(d, a, b) ==
    LET ra == RankIn(d, a)
        rb == RankIn(d, b)
    IN  IF ra > 0 /\ rb > 0
        THEN <<(RankConstant + ra) + (RankConstant + rb), (RankConstant + ra) * (RankConstant + rb)>>
        ELSE IF ra > 0 THEN <<1, RankConstant + ra>>
        ELSE IF rb > 0 THEN <<1, RankConstant + rb>>
        ELSE <<0, 1>>

ScoreGE(f, g) == f[1] * g[2] >= g[1] * f[2]

Range(l) == {l[i] : i \in 1..Len(l)}

FusedRankings(a, b) ==
    {l \in ListsOf(Range(a) \cup Range(b)) :
        \A i \in 1..Len(l) : \A j \in (i + 1)..Len(l) :
            ScoreGE(RRFScore(l[i], a, b), RRFScore(l[j], a, b))}

\* the lists aggregate can return for the $rankFusion pipeline
AggregateFusion(p) ==
    {Take(DocsAt(l), p.limit) :
        l \in UNION {FusedRankings(a, b) :
                        a \in StageRankings(p.subs[1]), b \in StageRankings(p.subs[2])}}

(***************************************************************************)
(* Printed lines.  src records which query a printed document came from.   *)
(***************************************************************************)
L(text) == [text |-> text, n |-> 0, docs |-> {}, src |-> "none"]

LN(text, n) == [text |-> text, n |-> n, docs |-> {}, src |-> "none"]

LD(text, i, doc, src) == [text |-> text, n |-> i, docs |-> {doc}, src |-> src]

\* the for loop over a result list: Title is printed, then the plot is sliced
\* and printed; the loops over the filtered results of 3_atlas_search.py and
\* 5_rank_fusion.py (full = TRUE) then slice fullplot.  A slice of None raises
\* and ends the loop.
RECURSIVE DocLines(_, _, _, _)
DocLines(rs, i, src, full) ==
    IF i > Len(rs) THEN <<>>
    ELSE IF rs[i].plot = "None" THEN << LD("Title", i, rs[i], src) >>
    ELSE IF full /\ rs[i].fullplot = "None"
    THEN << LD("Title", i, rs[i], src), LD("Plot", i, rs[i], src) >>
    ELSE << LD("Title", i, rs[i], src), LD("Plot", i, rs[i], src) >>
         \o DocLines(rs, i + 1, src, full)

PrintRaises(rs, full) ==
    \E i \in 1..Len(rs) : rs[i].plot = "None" \/ (full /\ rs[i].fullplot = "None")

(***************************************************************************)
(* Lines each branch prints                                                *)
(***************************************************************************)
\* printed before find_one() is called
CheckStartLines == << L("Checking collection...") >>

\* printed once find_one() has returned
SampleLines ==
    IF Len(corpus) > 0 THEN << L("Sample document keys") >>
                       ELSE << L("No documents found in collection!") >>

\* printed once count_documents() has returned
TotalLines == << LN("Total documents in collection", Len(corpus)) >>

CheckLines == CheckStartLines \o SampleLines \o TotalLines

\* sample_doc['fullplot'][:200] of 3_atlas_search.py, outside any try
SampleRaises == Len(corpus) > 0 /\ corpus[1].fullplot = "None"

AtlasFoundLines(rs) == << LN("Found results", Len(rs)) >>

AtlasResultLines(rs) == << L("Atlas Search Results:") >> \o DocLines(rs, 1, "filtered", TRUE)

AtlasFailedLines == << L("Atlas Search failed"), L("Trying search without ACL filters...") >>

AtlasFallbackFoundLines(rs) == << LN("Fallback search found results", Len(rs)) >>

AtlasFallbackResultLines(rs) ==
    IF Len(rs) > 0
    THEN << L("Fallback Search Results (without ACL filters):") >> \o DocLines(rs, 1, "unfiltered", FALSE)
    ELSE <<>>

\* the failed fallback reported as an empty result
AtlasFallbackFailedLines_zero == << LN("Fallback search found results", 0) >>

AtlasFallbackFailedLines == << L("Fallback search also failed") >>

VectorFoundLines(rs) == << LN("Found results", Len(rs)) >>

VectorResultLines(rs) == << L("Vector Search Results:") >> \o DocLines(rs, 1, "filtered", FALSE)

VectorFailedLines == << L("Vector search failed"), L("Trying search without filter...") >>

VectorFallbackFoundLines(rs) == << LN("Fallback search found results", Len(rs)) >>

\* fallback documents printed under the heading of the filtered results
VectorFallbackResultLines_sameHeading(rs) ==
    IF Len(rs) > 0
    THEN << L("Vector Search Results:") >> \o DocLines(rs, 1, "unfiltered", FALSE)
    ELSE <<>>

VectorFallbackResultLines(rs) ==
    IF Len(rs) > 0
    THEN << L("Fallback Search Results (without filter):") >> \o DocLines(rs, 1, "unfiltered", FALSE)
    ELSE <<>>

VectorFallbackFailedLines == << L("Fallback search also failed") >>

RankFusionFoundLines(rs) == << LN("Found results using rank fusion", Len(rs)) >>

RankFusionResultLines(rs) == << L("Rank Fusion Results:") >> \o DocLines(rs, 1, "filtered", TRUE)

RankFusionFailedLines ==
    << L("Rank fusion search failed"),
       L("This might be because $rankFusion is not available in your MongoDB version.") >>

\* get_embedding prints the error it catches; the script prints the failure
EmbeddingErrorLines(o) ==
    (IF o = "error" THEN << L("Error generating embedding") >> ELSE <<>>)
        \o << L("Failed to generate embedding") >>

EmbeddingOkLines == << L("Successfully generated embedding") >>

(***************************************************************************)
(* get_embedding: one request; an exception is caught and None returned    *)
(***************************************************************************)
get_embedding(o) ==
    IF o = "ok" THEN "embedding" ELSE IF o = "empty" THEN "[]" ELSE "None"

\* the check of the returned embedding left out
EmbeddingTruthy_always(e) == TRUE

\* "if query_embedding:" of the scripts: None and the empty list are falsy
EmbeddingTruthy(e) == e \notin {"None", "[]"}

\* "except Exception" of the scripts' first query: every failure falls back
FallsBack(o) == o # "ok"

(***************************************************************************)
(* Initial state: a script is started against some collection              *)
(***************************************************************************)
Scripts == {"atlas_search", "vector_search", "rank_fusion"}

FirstPc(s) == IF s = "vector_search" THEN "embed" ELSE "check"

GenIdle ==
    /\ gen_pc = "idle"
    /\ length = 0
    /\ acl_set = {}
    /\ acl_array = <<>>

JobIdle ==
    /\ job_pc = "idle"
    /\ total_docs = 0
    /\ operations = 0
    /\ batch_operations = <<>>
    /\ submitted = <<>>
    /\ store = {}
    /\ job_output = <<>>
    /\ job_status = "running"

IndexIdle ==
    /\ idx_pc = "idle"
    /\ entry = "main"
    /\ run = 0
    /\ backend = {}
    /\ calls = <<>>
    /\ create_requests = <<>>
    /\ search_success = "unset"
    /\ vector_success = "unset"
    /\ timeout_minutes = 0
    /\ elapsed = 0
    /\ polled = {}
    /\ last_poll = "none"
    /\ wait_result = "unset"

FusionIdle ==
    /\ vectorList = <<>>
    /\ textList = <<>>
    /\ top_k = 0
    /\ fused = <<>>
    /\ fusion_pc = "idle"

Init ==
    /\ script \in Scripts
    /\ pc = FirstPc(script)
    /\ corpus \in Corpora
    /\ query_embedding = "None"
    /\ embedLog = <<>>
    /\ issued = <<>>
    /\ results = <<>>
    /\ fallback_results = <<>>
    /\ output = <<>>
    /\ exitCode = "running"
    /\ GenIdle
    /\ FusionIdle
    /\ JobIdle
    /\ IndexIdle

\* an exception nothing catches, after the lines printed so far by the step:
\* the interpreter prints a traceback and stops
Uncaught(lines) ==
    /\ pc' = "done"
    /\ exitCode' = "traceback"
    /\ output' = output \o lines \o << L("Traceback") >>

\* exit(1)
Exit1(lines) ==
    /\ pc' = "done"
    /\ exitCode' = "1"
    /\ output' = output \o lines

\* client.close() and the end of the script
Close ==
    /\ pc = "close"
    /\ pc' = "done"
    /\ exitCode' = "0"
    /\ UNCHANGED <<script, corpus, query_embedding, embedLog, issued, results,
                   fallback_results, output>>
    /\ UNCHANGED nonSearchVars

(***************************************************************************)
(* 3_atlas_search.py                                                       *)
(***************************************************************************)
\* find_one(), the sample lines, count_documents(); none of it is in a try
AtlasCheckCollection ==
    /\ script = "atlas_search"
    /\ pc = "check"
    /\ \E find_one \in BackendOutcomes, count \in BackendOutcomes :
         IF find_one # "ok" THEN Uncaught(CheckStartLines)
         ELSE IF SampleRaises \/ count # "ok"
         THEN Uncaught(CheckStartLines \o SampleLines)
         ELSE /\ output' = output \o CheckLines
              /\ pc' = "search"
              /\ UNCHANGED exitCode
    /\ UNCHANGED <<script, corpus, query_embedding, embedLog, issued, results, fallback_results>>
    /\ UNCHANGED nonSearchVars

\* results = list(collection.aggregate(pipeline)) and the "Found" line
AtlasSearch ==
    /\ script = "atlas_search"
    /\ pc = "search"
    /\ \E o \in BackendOutcomes :
         /\ issued' = Append(issued, [pipeline |-> atlas_pipeline, outcome |-> o])
         /\ IF FallsBack(o)
            THEN /\ output' = output \o << L("Performing Atlas Search...") >> \o AtlasFailedLines
                 /\ pc' = "fallback"
                 /\ UNCHANGED results
            ELSE /\ \E r \in Aggregate(atlas_pipeline) :
                      /\ results' = r
                      /\ output' = output \o << L("Performing Atlas Search...") >>
                                          \o AtlasFoundLines(r)
                 /\ pc' = "print"
    /\ UNCHANGED <<script, corpus, query_embedding, embedLog, fallback_results, exitCode>>
    /\ UNCHANGED nonSearchVars

\* the loop printing results; an exception in it reaches the same except clause
AtlasPrintResults ==
    /\ script = "atlas_search"
    /\ pc = "print"
    /\ IF PrintRaises(results, TRUE)
       THEN /\ output' = output \o AtlasResultLines(results) \o AtlasFailedLines
            /\ pc' = "fallback"
       ELSE /\ output' = output \o AtlasResultLines(results)
            /\ pc' = "close"
    /\ UNCHANGED <<script, corpus, query_embedding, embedLog, issued, results,
                   fallback_results, exitCode>>
    /\ UNCHANGED nonSearchVars

\* fallback_results = list(collection.aggregate(pipeline_no_filter))
AtlasFallback ==
    /\ script = "atlas_search"
    /\ pc = "fallback"
    /\ \E o \in BackendOutcomes :
         /\ issued' = Append(issued, [pipeline |-> atlas_pipeline_no_filter, outcome |-> o])
         /\ IF o = "ok"
            THEN /\ \E r \in Aggregate(atlas_pipeline_no_filter) :
                      /\ fallback_results' = r
                      /\ output' = output \o AtlasFallbackFoundLines(r)
                 /\ pc' = "fallback_print"
            ELSE /\ output' = output \o AtlasFallbackFailedLines
                 /\ pc' = "close"
                 /\ UNCHANGED fallback_results
    /\ UNCHANGED <<script, corpus, query_embedding, embedLog, results, exitCode>>
    /\ UNCHANGED nonSearchVars

AtlasFallbackPrint ==
    /\ script = "atlas_search"
    /\ pc = "fallback_print"
    /\ output' = output \o AtlasFallbackResultLines(fallback_results)
                        \o (IF PrintRaises(fallback_results, FALSE) THEN AtlasFallbackFailedLines ELSE <<>>)
    /\ pc' = "close"
    /\ UNCHANGED <<script, corpus, query_embedding, embedLog, issued, results,
                   fallback_results, exitCode>>
    /\ UNCHANGED nonSearchVars

(***************************************************************************)
(* 4_vector_search.py                                                      *)
(***************************************************************************)
\* query_embedding = get_embedding(query_text); exit(1) when it is falsy
VectorGetEmbedding ==
    /\ script = "vector_search"
    /\ pc = "embed"
    /\ \E o \in EmbedOutcomes :
         /\ embedLog' = Append(embedLog, o)
         /\ query_embedding' = get_embedding(o)
         /\ IF EmbeddingTruthy(get_embedding(o))
            THEN /\ output' = output \o EmbeddingOkLines
                 /\ pc' = "check"
                 /\ UNCHANGED exitCode
            ELSE Exit1(EmbeddingErrorLines(o))
    /\ UNCHANGED <<script, corpus, issued, results, fallback_results>>
    /\ UNCHANGED nonSearchVars

\* find_one(), the sample lines, count_documents(); none of it is in a try
VectorCheckCollection ==
    /\ script = "vector_search"
    /\ pc = "check"
    /\ \E find_one \in BackendOutcomes, count \in BackendOutcomes :
         IF find_one # "ok" THEN Uncaught(CheckStartLines)
         ELSE IF count # "ok" THEN Uncaught(CheckStartLines \o SampleLines)
         ELSE /\ output' = output \o CheckLines
              /\ pc' = "search"
              /\ UNCHANGED exitCode
    /\ UNCHANGED <<script, corpus, query_embedding, embedLog, issued, results, fallback_results>>
    /\ UNCHANGED nonSearchVars

VectorSearch ==
    /\ script = "vector_search"
    /\ pc = "search"
    /\ \E o \in BackendOutcomes :
         /\ issued' = Append(issued, [pipeline |-> vector_pipeline, outcome |-> o])
         /\ IF FallsBack(o)
            THEN /\ output' = output \o << L("Performing vector search...") >> \o VectorFailedLines
                 /\ pc' = "fallback"
                 /\ UNCHANGED results
            ELSE /\ \E r \in Aggregate(vector_pipeline) :
                      /\ results' = r
                      /\ output' = output \o << L("Performing vector search...") >>
                                          \o VectorFoundLines(r)
                 /\ pc' = "print"
    /\ UNCHANGED <<script, corpus, query_embedding, embedLog, fallback_results, exitCode>>
    /\ UNCHANGED nonSearchVars

VectorPrintResults ==
    /\ script = "vector_search"
    /\ pc = "print"
    /\ IF PrintRaises(results, FALSE)
       THEN /\ output' = output \o VectorResultLines(results) \o VectorFailedLines
            /\ pc' = "fallback"
       ELSE /\ output' = output \o VectorResultLines(results)
            /\ pc' = "close"
    /\ UNCHANGED <<script, corpus, query_embedding, embedLog, issued, results,
                   fallback_results, exitCode>>
    /\ UNCHANGED nonSearchVars

VectorFallback ==
    /\ script = "vector_search"
    /\ pc = "fallback"
    /\ \E o \in BackendOutcomes :
         /\ issued' = Append(issued, [pipeline |-> vector_pipeline_no_filter, outcome |-> o])
         /\ IF o = "ok"
            THEN /\ \E r \in Aggregate(vector_pipeline_no_filter) :
                      /\ fallback_results' = r
                      /\ output' = output \o VectorFallbackFoundLines(r)
                 /\ pc' = "fallback_print"
            ELSE /\ output' = output \o VectorFallbackFailedLines
                 /\ pc' = "close"
                 /\ UNCHANGED fallback_results
    /\ UNCHANGED <<script, corpus, query_embedding, embedLog, results, exitCode>>
    /\ UNCHANGED nonSearchVars

VectorFallbackPrint ==
    /\ script = "vector_search"
    /\ pc = "fallback_print"
    /\ output' = output \o VectorFallbackResultLines(fallback_results)
                        \o (IF PrintRaises(fallback_results, FALSE) THEN VectorFallbackFailedLines ELSE <<>>)
    /\ pc' = "close"
    /\ UNCHANGED <<script, corpus, query_embedding, embedLog, issued, results,
                   fallback_results, exitCode>>
    /\ UNCHANGED nonSearchVars

(***************************************************************************)
(* 5_rank_fusion.py                                                        *)
(***************************************************************************)
\* find_one(); count_documents() when there is a document, else exit(1)
RankFusionCheckCollection ==
    /\ script = "rank_fusion"
    /\ pc = "check"
    /\ \E find_one \in BackendOutcomes, count \in BackendOutcomes :
         IF find_one # "ok" THEN Uncaught(CheckStartLines)
         ELSE IF Len(corpus) = 0 THEN Exit1(CheckStartLines \o SampleLines)
         ELSE IF count # "ok" THEN Uncaught(CheckStartLines \o SampleLines)
         ELSE /\ output' = output \o CheckLines
              /\ pc' = "embed"
              /\ UNCHANGED exitCode
    /\ UNCHANGED <<script, corpus, query_embedding, embedLog, issued, results, fallback_results>>
    /\ UNCHANGED nonSearchVars

RankFusionGetEmbedding ==
    /\ script = "rank_fusion"
    /\ pc = "embed"
    /\ \E o \in EmbedOutcomes :
         /\ embedLog' = Append(embedLog, o)
         /\ query_embedding' = get_embedding(o)
         /\ IF EmbeddingTruthy(get_embedding(o))
            THEN /\ output' = output \o EmbeddingOkLines
                 /\ pc' = "search"
                 /\ UNCHANGED exitCode
            ELSE Exit1(EmbeddingErrorLines(o))
    /\ UNCHANGED <<script, corpus, issued, results, fallback_results>>
    /\ UNCHANGED nonSearchVars

RankFusionSearch ==
    /\ script = "rank_fusion"
    /\ pc = "search"
    /\ \E o \in BackendOutcomes :
         /\ issued' = Append(issued, [pipeline |-> rank_fusion_pipeline, outcome |-> o])
         /\ IF o = "ok"
            THEN /\ \E r \in AggregateFusion(rank_fusion_pipeline) :
                      /\ results' = r
                      /\ output' = output \o << L("Performing rank fusion search...") >>
                                          \o RankFusionFoundLines(r)
                 /\ pc' = "print"
            ELSE /\ output' = output \o << L("Performing rank fusion search...") >>
                                     \o RankFusionFailedLines
                 /\ pc' = "close"
                 /\ UNCHANGED results
    /\ UNCHANGED <<script, corpus, query_embedding, embedLog, fallback_results, exitCode>>
    /\ UNCHANGED nonSearchVars

RankFusionPrintResults ==
    /\ script = "rank_fusion"
    /\ pc = "print"
    /\ output' = output \o RankFusionResultLines(results)
                        \o (IF PrintRaises(results, TRUE) THEN RankFusionFailedLines ELSE <<>>)
    /\ pc' = "close"
    /\ UNCHANGED <<script, corpus, query_embedding, embedLog, issued, results,
                   fallback_results, exitCode>>
    /\ UNCHANGED nonSearchVars

Next ==
    \/ AtlasCheckCollection
    \/ AtlasSearch
    \/ AtlasPrintResults
    \/ AtlasFallback
    \/ AtlasFallbackPrint
    \/ VectorGetEmbedding
    \/ VectorCheckCollection
    \/ VectorSearch
    \/ VectorPrintResults
    \/ VectorFallback
    \/ VectorFallbackPrint
    \/ RankFusionCheckCollection
    \/ RankFusionGetEmbedding
    \/ RankFusionSearch
    \/ RankFusionPrintResults
    \/ Close

Spec == Init /\ [][Next]_vars

(***************************************************************************)
(* 1_add_acls_unique.py: generate_acl_array                                *)
(* random.randint returns any integer of its range.  A run of the model     *)
(* draws lengths up to MaxDrawn and ACL values from the MaxDrawn lowest and *)
(* the MaxDrawn highest values of the range, so that every length drawn can *)
(* be filled.                                                               *)
(***************************************************************************)
MaxDrawn == 3

\* random.randint(min_val, max_val): both ends included
get_random_int(min_val, max_val) == min_val..max_val

max_length == 500

\* the lengths and the ACL values the runs of the model draw
LengthsDrawn == 0..MaxDrawn

ValuesDrawn == (1..MaxDrawn) \cup ((32767 - MaxDrawn + 1)..32767)

\* sorted(): stable ascending sort
RECURSIVE Insert(_, _)
Insert(x, s) ==
    IF s = <<>> THEN <<x>>
    ELSE IF x < Head(s) THEN <<x>> \o s
    ELSE <<Head(s)>> \o Insert(x, Tail(s))

\* the list returned without sorting
sorted_identity(l) == l

RECURSIVE sorted(_)
sorted(l) == IF l = <<>> THEN <<>> ELSE Insert(l[Len(l)], sorted(SubSeq(l, 1, Len(l) - 1)))

SearchIdle ==
    /\ script = "none"
    /\ pc = "done"
    /\ corpus = <<>>
    /\ query_embedding = "None"
    /\ embedLog = <<>>
    /\ issued = <<>>
    /\ results = <<>>
    /\ fallback_results = <<>>
    /\ output = <<>>
    /\ exitCode = "running"

InitAcl ==
    /\ SearchIdle
    /\ GenIdle
    /\ FusionIdle
    /\ JobIdle
    /\ IndexIdle

\* length = get_random_int(0, max_length); acl_set = set()
GenStart ==
    /\ gen_pc \in {"idle", "returned"}
    /\ \E n \in {l \in LengthsDrawn : l \in get_random_int(0, max_length)} : length' = n
    /\ acl_set' = {}
    /\ acl_array' = <<>>
    /\ gen_pc' = "loop"
    /\ UNCHANGED nonGenVars

\* one iteration of "while len(acl_set) < length"
GenAdd ==
    /\ gen_pc = "loop"
    /\ Cardinality(acl_set) < length
    /\ \E v \in {x \in ValuesDrawn : x \in get_random_int(1, 32767)} :
           acl_set' = acl_set \cup {v}
    /\ UNCHANGED <<gen_pc, length, acl_array>>
    /\ UNCHANGED nonGenVars

\* return sorted(list(acl_set))
GenReturn ==
    /\ gen_pc = "loop"
    /\ ~(Cardinality(acl_set) < length)
    /\ \E l \in ListsOf(acl_set) : acl_array' = sorted(l)
    /\ gen_pc' = "returned"
    /\ UNCHANGED <<length, acl_set>>
    /\ UNCHANGED nonGenVars

NextAcl ==
    \/ GenStart
    \/ GenAdd
    \/ GenReturn

SpecAcl == InitAcl /\ [][NextAcl]_vars

(***************************************************************************)
(* 1_add_acls_unique.py: main, the bulk ACL assignment job                 *)
(* The cursor yields the documents 1..total_docs.  An update names its     *)
(* document and the attributes it sets; the arrays themselves come from    *)
(* generate_acl_array, modelled above.                                     *)
(***************************************************************************)
BATCH_SIZE == 1000

CollectionSizes ==
    {0, 1, 3, BATCH_SIZE - 1, BATCH_SIZE, BATCH_SIZE + 1, 2 * BATCH_SIZE, MaxTotalDocs}

\* bulk_write returns, raises BulkWriteError, or raises another exception
BulkOutcomes == {"ok", "BulkWriteError", "OtherError"}

update_operation(id) == [filter |-> id, set |-> {"ACL1", "ACL2", "ACL3"}]

Ids(batch) == {batch[i].filter : i \in 1..Len(batch)}

\* with ordered=False every update is attempted and fails or succeeds on its
\* own.  BulkWriteError reports write errors (those updates are not applied)
\* or write concern errors alone (every update is applied); another exception
\* (the connection lost before or after the write) leaves any subset applied
Applied(batch, o) ==
    IF o = "ok" THEN {Ids(batch)} ELSE SUBSET Ids(batch)

\* the applied sets the runs of the model draw: nothing, or everything but some
\* of the first MaxFailed updates of the batch
AppliedDrawn(batch) ==
    {{}} \cup {Ids(batch) \ F :
                 F \in SUBSET {batch[i].filter :
                                  i \in 1..(IF Len(batch) < MaxFailed THEN Len(batch)
                                                                     ELSE MaxFailed)}}

CompletedLines(n) ==
    << LN("Completed! Processed documents", n), L("Unique ACL arrays added to all documents") >>

\* except Exception / finally of main; the message names the failed call
AbortLines(call) ==
    << [text |-> "Error during processing", n |-> 0, docs |-> {}, src |-> call],
       L("MongoDB connection closed.") >>

\* the pending batch after bulk_write raised BulkWriteError is kept
BatchAfterWrite_keepOnError(batch, o) == IF o = "ok" THEN <<>> ELSE batch

\* batch_operations after the bulk_write of a full batch: both the normal path
\* and the BulkWriteError handler clear it
BatchAfterWrite(batch, o) == IF o \in {"ok", "BulkWriteError"} THEN <<>> ELSE batch

InitJob ==
    /\ SearchIdle
    /\ GenIdle
    /\ FusionIdle
    /\ job_pc = "count"
    /\ total_docs \in CollectionSizes
    /\ operations = 0
    /\ batch_operations = <<>>
    /\ submitted = <<>>
    /\ store = {}
    /\ job_output = <<>>
    /\ job_status = "running"
    /\ IndexIdle

\* total_docs = collection.count_documents({}); return when it is 0
JobCount ==
    /\ job_pc = "count"
    /\ \E o \in {"ok", "OtherError"} :
         IF o # "ok"
         THEN /\ job_pc' = "done"
              /\ job_status' = "traceback"
              /\ job_output' = Append(job_output, L("Traceback"))
         ELSE IF total_docs = 0
         THEN /\ job_pc' = "done"
              /\ job_status' = "completed"
              /\ job_output' = job_output \o << LN("Total documents in collection", 0),
                                                L("No documents found in collection!") >>
         ELSE /\ job_pc' = "loop"
              /\ UNCHANGED job_status
              /\ job_output' = job_output \o << LN("Total documents in collection", total_docs),
                                                L("Starting to add unique ACL arrays to all documents...") >>
    /\ UNCHANGED <<total_docs, operations, batch_operations, submitted, store>>
    /\ UNCHANGED nonJobVars

\* one iteration of "for doc in cursor", with the bulk_write of a full batch
JobIterate ==
    /\ job_pc = "loop"
    /\ operations < total_docs
    /\ operations' = operations + 1
    /\ LET batch == Append(batch_operations, update_operation(operations + 1))
       IN  IF (operations + 1) % BATCH_SIZE = 0
           THEN \E o \in BulkOutcomes :
                \E w \in {x \in AppliedDrawn(batch) : x \in Applied(batch, o)} :
                  /\ submitted' = Append(submitted, [ops |-> batch, outcome |-> o])
                  /\ store' = store \cup w
                  /\ batch_operations' = BatchAfterWrite(batch, o)
                  /\ IF o = "ok"
                     THEN /\ job_output' = job_output \o << LN("Processed documents", operations + 1),
                                                            LN("Progress", operations + 1) >>
                          /\ UNCHANGED <<job_pc, job_status>>
                     ELSE IF o = "BulkWriteError"
                     THEN /\ job_output' = Append(job_output,
                                                  LN("Bulk write error at operation", operations + 1))
                          /\ UNCHANGED <<job_pc, job_status>>
                     ELSE /\ job_output' = job_output \o AbortLines("bulk_write")
                          /\ job_pc' = "done"
                          /\ job_status' = "aborted"
           ELSE /\ batch_operations' = batch
                /\ UNCHANGED <<submitted, store, job_output, job_pc, job_status>>
    /\ UNCHANGED total_docs
    /\ UNCHANGED nonJobVars

\* the cursor raises while the loop fetches: the next document, or the end of
\* the cursor after the last one
JobCursorError ==
    /\ job_pc = "loop"
    /\ job_output' = job_output \o AbortLines("cursor")
    /\ job_pc' = "done"
    /\ job_status' = "aborted"
    /\ UNCHANGED <<total_docs, operations, batch_operations, submitted, store>>
    /\ UNCHANGED nonJobVars

\* the cursor is exhausted: the remaining operations, then the final report
JobFinish ==
    /\ job_pc = "loop"
    /\ operations = total_docs
    /\ IF batch_operations # <<>>
       THEN \E o \in BulkOutcomes :
            \E w \in {x \in AppliedDrawn(batch_operations) :
                          x \in Applied(batch_operations, o)} :
              /\ submitted' = Append(submitted, [ops |-> batch_operations, outcome |-> o])
              /\ store' = store \cup w
              /\ IF o = "ok"
                 THEN /\ job_output' = job_output \o << L("Final batch processed") >>
                                                  \o CompletedLines(operations)
                      /\ job_pc' = "verify"
                      /\ UNCHANGED job_status
                 ELSE IF o = "BulkWriteError"
                 THEN /\ job_output' = job_output \o << L("Bulk write error in final batch") >>
                                                  \o CompletedLines(operations)
                      /\ job_pc' = "verify"
                      /\ UNCHANGED job_status
                 ELSE /\ job_output' = job_output \o AbortLines("bulk_write")
                      /\ job_pc' = "done"
                      /\ job_status' = "aborted"
       ELSE /\ job_output' = job_output \o CompletedLines(operations)
            /\ job_pc' = "verify"
            /\ UNCHANGED <<submitted, store, job_status>>
    /\ UNCHANGED <<total_docs, operations, batch_operations>>
    /\ UNCHANGED nonJobVars

\* the $sample aggregate that verifies the update, then the finally clause
JobVerify ==
    /\ job_pc = "verify"
    /\ \E o \in {"ok", "OtherError"} :
         IF o = "ok"
         THEN /\ job_output' = job_output \o << L("Verifying updates..."),
                                                L("MongoDB connection closed.") >>
              /\ job_status' = "completed"
         ELSE /\ job_output' = job_output \o << L("Verifying updates...") >> \o AbortLines("aggregate")
              /\ job_status' = "aborted"
    /\ job_pc' = "done"
    /\ UNCHANGED <<total_docs, operations, batch_operations, submitted, store>>
    /\ UNCHANGED nonJobVars

NextJob ==
    \/ JobCount
    \/ JobIterate
    \/ JobCursorError
    \/ JobFinish
    \/ JobVerify

SpecJob == InitJob /\ [][NextJob]_vars

(***************************************************************************)
(* The $rankFusion stage followed by $limit, on its own: two ranked lists  *)
(* of document ids and a limit go in, one ranked list comes out.           *)
(***************************************************************************)
FusionIds == 1..MaxFusionIds

Rankings == UNION {ListsOf(S) : S \in SUBSET FusionIds}

TopKs == 1..5

InitFusion ==
    /\ SearchIdle
    /\ GenIdle
    /\ vectorList \in Rankings
    /\ textList \in Rankings
    /\ top_k \in TopKs
    /\ fused = <<>>
    /\ fusion_pc = "input"
    /\ JobIdle
    /\ IndexIdle

RankFusion ==
    /\ fusion_pc = "input"
    /\ \E l \in FusedRankings(vectorList, textList) : fused' = Take(l, top_k)
    /\ fusion_pc' = "fused"
    /\ UNCHANGED <<vectorList, textList, top_k>>
    /\ UNCHANGED nonFusionVars

NextFusion == RankFusion

SpecFusion == InitFusion /\ [][NextFusion]_vars

(***************************************************************************)
(* Vocabulary of the properties                                            *)
(***************************************************************************)
RequiredPairsMust(m) == {<<m[i].path, m[i].value>> : i \in 1..Len(m)}

RequiredPairsAnd(f) == UNION {{<<f[i].path, v>> : v \in f[i].vals} : i \in 1..Len(f)}

ContainsAll(doc, pairs) == \A p \in pairs : p[2] \in doc[p[1]]

DocD == [ACL1 |-> {17, 556, 999}, ACL2 |-> {83}, plot |-> "str", fullplot |-> "match"]

InSeq(x, s) == \E i \in 1..Len(s) : s[i] = x

FilteredSucceeded == pc = "print" /\ Len(issued) = 1 /\ issued[1].outcome = "ok"

RequiredOf(p) ==
    UNION {IF p.subs[k].op = "$search" THEN RequiredPairsMust(p.subs[k].must)
           ELSE RequiredPairsAnd(p.subs[k].filter) : k \in 1..Len(p.subs)}

IsUnfiltered(p) == \E k \in 1..Len(p.subs) : ~p.subs[k].hasFilter

UnfilteredIssued == \E j \in 1..Len(issued) : IsUnfiltered(issued[j].pipeline)

AllAttemptsFailed == Len(issued) > 0 /\ \A j \in 1..Len(issued) : issued[j].outcome # "ok"

HasLine(text) == \E i \in 1..Len(output) : output[i].text = text

CountTexts == {"Found results", "Fallback search found results", "Found results using rank fusion"}

FinalErrorText ==
    IF script = "rank_fusion" THEN "Rank fusion search failed" ELSE "Fallback search also failed"

WithoutFilterHeadings ==
    {"Fallback Search Results (without ACL filters):", "Fallback Search Results (without filter):"}

DegradedMarkers == {"Trying search without ACL filters...", "Trying search without filter..."}

IsDocLine(i) == output[i].docs # {}

\* the nearest line above line i that is not a document line
HeadingOf(i) ==
    LET above == {j \in 1..(i - 1) : ~IsDocLine(j)}
    IN  IF above = {} THEN "none"
        ELSE output[CHOOSE j \in above : \A k \in above : k <= j].text

VectorStagesIssued ==
    UNION {{issued[j].pipeline.subs[k] :
               k \in {n \in 1..Len(issued[j].pipeline.subs) :
                          issued[j].pipeline.subs[n].op = "$vectorSearch"}} :
           j \in 1..Len(issued)}

SearchStagesIssued ==
    UNION {{issued[j].pipeline.subs[k] :
               k \in {n \in 1..Len(issued[j].pipeline.subs) :
                          issued[j].pipeline.subs[n].op = "$search"}} :
           j \in 1..Len(issued)}

(***************************************************************************)
(* C1. The ACL filter is an AND of membership tests: a document passes the *)
(* filter of a script exactly when, for every required (attribute, value)  *)
(* pair, its set for the attribute holds the value; the accepted filtered  *)
(* query returns exactly those documents (up to its limit).  Document D    *)
(* (ACL1 = {17,556,999}, ACL2 = {83}) passes the clauses requiring 17 and  *)
(* 556 in ACL1 and 83 in ACL2, and fails the filters, which require 358 in *)
(* ACL2.                                                                   *)
(***************************************************************************)
C1_FilterIsAndOfMemberships ==
    LET lexical   == atlas_pipeline.subs[1]
        vector    == vector_pipeline.subs[1]
        rfVector  == rank_fusion_pipeline.subs[1]
        rfLexical == rank_fusion_pipeline.subs[2]
        pairsLexical   == RequiredPairsMust(must)
        pairsVector    == RequiredPairsAnd(vector_filter)
        pairsRfVector  == RequiredPairsAnd(rf_vector_filter)
        pairsRfLexical == RequiredPairsMust(rf_must)
    IN
    /\ \A i \in 1..Len(corpus) :
         /\ StageMatches(corpus[i], lexical) <=> ContainsAll(corpus[i], pairsLexical)
         /\ StageMatches(corpus[i], vector) <=> ContainsAll(corpus[i], pairsVector)
         /\ StageMatches(corpus[i], rfVector) <=> ContainsAll(corpus[i], pairsRfVector)
         /\ StageMatches(corpus[i], rfLexical) <=> ContainsAll(corpus[i], pairsRfLexical)
    /\ FilteredSucceeded =>
         LET required == RequiredOf(issued[1].pipeline)
             passing  == {i \in 1..Len(corpus) : ContainsAll(corpus[i], required)}
         IN  /\ \E l \in ListsOf(passing) : results = Take(DocsAt(l), 5)
             /\ ~InSeq(DocD, results)
    /\ PassesMust(DocD, SubSeq(must, 1, 3))
    /\ PassesAnd(DocD, SubSeq(vector_filter, 1, 3))
    /\ <<"ACL2", 358>> \in pairsLexical \cap pairsVector
    /\ ~PassesMust(DocD, must) /\ ~PassesAnd(DocD, vector_filter)

C1_Witness ==
    /\ FilteredSucceeded
    /\ InSeq(DocD, corpus)
    /\ Len(results) = 1

(***************************************************************************)
(* C2. In the lexical script no document that violates the ACL filter is   *)
(* ever printed as a search result, and every query the script issues      *)
(* carries the filter of the first one.                                    *)
(***************************************************************************)
C2_LexicalFilterIsHard ==
    script = "atlas_search" =>
        /\ \A i \in 1..Len(output) : \A d \in output[i].docs : PassesMust(d, must)
        /\ \A st \in SearchStagesIssued : st.hasFilter /\ st.must = must

(***************************************************************************)
(* C3. In the vector script an unfiltered query is issued only after the   *)
(* backend rejected the filtered query as unsupported.                     *)
(***************************************************************************)
C3_UnfilteredOnlyWhenUnsupported ==
    (script = "vector_search" /\ UnfilteredIssued) => issued[1].outcome = "unsupported"

(***************************************************************************)
(* C4. Documents that came from a query without the ACL filter are printed *)
(* under a "without filter" heading, never under the heading of filtered   *)
(* results, and the output of a run shows the degraded path exactly when   *)
(* the run took it.                                                        *)
(***************************************************************************)
C4_UnfilteredResultsAreMarked ==
    /\ \A i \in 1..Len(output) :
         output[i].src = "unfiltered" => HeadingOf(i) \in WithoutFilterHeadings
    /\ UnfilteredIssued => \E t \in DegradedMarkers : HasLine(t)
    /\ (\E t \in DegradedMarkers : HasLine(t)) => (pc = "fallback" \/ UnfilteredIssued)

C4_Witness ==
    /\ pc = "done"
    /\ \E i \in 1..Len(output) : output[i].src = "unfiltered"
    /\ \E i \in 1..Len(output) : output[i].src = "filtered"

(***************************************************************************)
(* C5. A run in which every query attempt raised reports an error and      *)
(* never a result count or a result list.                                  *)
(***************************************************************************)
C5_TotalFailureIsNotEmptyResult ==
    /\ (pc = "done" /\ AllAttemptsFailed) =>
          /\ HasLine(FinalErrorText)
          /\ \A i \in 1..Len(output) : output[i].text \notin CountTexts /\ ~IsDocLine(i)
    /\ exitCode = "traceback" =>
          /\ output[Len(output)].text = "Traceback"
          /\ \A i \in 1..Len(output) : output[i].text \notin CountTexts /\ ~IsDocLine(i)

C5_Witness ==
    /\ pc = "done"
    /\ script = "atlas_search"
    /\ Len(issued) = 2
    /\ AllAttemptsFailed

(***************************************************************************)
(* C6. Every sequence generate_acl_array returns has between 0 and 500     *)
(* elements, all of them integers between 1 and 32767, in strictly         *)
(* ascending order; it has the length drawn at the start of the call.      *)
(***************************************************************************)
C6_GeneratedArrayInvariant ==
    /\ gen_pc # "idle" => length \in 0..500 /\ Cardinality(acl_set) <= length
    /\ gen_pc = "returned" =>
          /\ Len(acl_array) = length
          /\ Len(acl_array) \in 0..500
          /\ \A i \in 1..Len(acl_array) : acl_array[i] \in 1..32767
          /\ \A i \in 1..(Len(acl_array) - 1) : acl_array[i] < acl_array[i + 1]

C6_Witness ==
    /\ gen_pc = "returned"
    /\ Len(acl_array) = 3
    /\ acl_array[1] = 1
    /\ acl_array[3] = 32767

(***************************************************************************)
(* C7. The lexical form of the filter (compound.must of "in" clauses) and  *)
(* the vector form ($and of $in clauses) accept the same documents, in the *)
(* standalone scripts and in the two inputs of the rank fusion.            *)
(***************************************************************************)
C7_LexicalAndVectorFilterAgree ==
    LET lexical   == atlas_pipeline.subs[1]
        vector    == vector_pipeline.subs[1]
        rfVector  == rank_fusion_pipeline.subs[1]
        rfLexical == rank_fusion_pipeline.subs[2]
    IN  \A i \in 1..Len(corpus) :
            /\ StageMatches(corpus[i], lexical) <=> StageMatches(corpus[i], vector)
            /\ StageMatches(corpus[i], rfLexical) <=> StageMatches(corpus[i], rfVector)
            /\ StageMatches(corpus[i], lexical) <=> StageMatches(corpus[i], rfLexical)

C7_Witness ==
    /\ script = "rank_fusion"
    /\ pc = "print"
    /\ Len(corpus) = 2
    /\ Len(results) = 1
    /\ \E i \in 1..Len(corpus) : corpus[i].ACL2 = {83, 358} /\ corpus[i].ACL1 = {17}

(***************************************************************************)
(* C8. When the embedding request fails it was made exactly once, the run  *)
(* has ended with status 1 and has issued no query; every vector query     *)
(* ever issued carries the vector the provider returned.                   *)
(***************************************************************************)
C8_EmbeddingFailureSurfaced ==
    /\ Len(embedLog) <= 1
    /\ (embedLog # <<>> /\ embedLog[1] # "ok") =>
          /\ Len(embedLog) = 1
          /\ pc = "done"
          /\ exitCode = "1"
          /\ issued = <<>>
    /\ \A st \in VectorStagesIssued :
          st.queryVector = "embedding" /\ embedLog = <<"ok">>

C8_Witness ==
    /\ script = "rank_fusion"
    /\ embedLog = <<"error">>
    /\ pc = "done"

(***************************************************************************)
(* C9. In the hybrid script, when the embedding request fails the lexical  *)
(* sub-query is still issued and a result list is still printed.           *)
(***************************************************************************)
C9_LexicalSurvivesEmbeddingFailure ==
    (script = "rank_fusion" /\ pc = "done" /\ InSeq("error", embedLog)) =>
        /\ SearchStagesIssued # {}
        /\ \E t \in CountTexts : HasLine(t)

(***************************************************************************)
(* C10. Every vector query issued (filtered, unfiltered fallback, vector   *)
(* input of the rank fusion) has numCandidates >= limit.                   *)
(***************************************************************************)
C10_CandidatesCoverLimit ==
    \A st \in VectorStagesIssued : st.numCandidates >= st.limit

C10_Witness ==
    /\ script = "vector_search"
    /\ Len(issued) = 2
    /\ VectorStagesIssued # {}
    /\ UnfilteredIssued

(***************************************************************************)
(* C11. When the backend rejects the native $rankFusion stage, the hybrid  *)
(* script still obtains the two ranked lists with separate queries and     *)
(* prints a fused result.                                                  *)
(***************************************************************************)
C11_FusionFallsBackInProcess ==
    (script = "rank_fusion" /\ pc = "done" /\ Len(issued) > 0
        /\ issued[1].outcome = "unsupported") =>
        /\ Len(issued) >= 3
        /\ \E t \in CountTexts : HasLine(t)

(***************************************************************************)
(* C12. Fusing a ranked list with an empty list, in either position,       *)
(* returns the documents of the list in the list's own order, cut to the   *)
(* limit.                                                                  *)
(***************************************************************************)
C12_FusionWithEmptyList ==
    fusion_pc = "fused" =>
        /\ textList = <<>> => fused = Take(vectorList, top_k)
        /\ vectorList = <<>> => fused = Take(textList, top_k)

C12_Witness ==
    /\ fusion_pc = "fused"
    /\ vectorList = <<>>
    /\ Len(textList) = 3
    /\ top_k = 2
    /\ Len(fused) = 2

(***************************************************************************)
(* Vocabulary of the bulk job properties                                   *)
(***************************************************************************)
HasJobLine(text) == \E i \in 1..Len(job_output) : job_output[i].text = text

SomeBatchFailed == \E j \in 1..Len(submitted) : submitted[j].outcome # "ok"

CursorFailed == \E i \in 1..Len(job_output) : job_output[i].src = "cursor"

BatchesOf(n) == (n + BATCH_SIZE - 1) \div BATCH_SIZE

\* the lines from "Completed!" on, up to the verification
FinalReport ==
    LET at == {i \in 1..Len(job_output) : job_output[i].text = "Completed! Processed documents"}
    IN  IF at = {} THEN <<>>
        ELSE LET i == CHOOSE k \in at : TRUE IN SubSeq(job_output, i, i + 1)

\* the for loop ran to the end of the cursor and no exception escaped it
LoopCompleted ==
    /\ job_pc \in {"verify", "done"}
    /\ total_docs > 0
    /\ operations = total_docs
    /\ ~CursorFailed
    /\ ~(/\ Len(submitted) > 0
         /\ submitted[Len(submitted)].outcome = "OtherError"
         /\ operations % BATCH_SIZE = 0)

RECURSIVE SubmittedCount(_)
SubmittedCount(j) == IF j = 0 THEN 0 ELSE Len(submitted[j].ops) + SubmittedCount(j - 1)

SubmittedIds == UNION {Ids(submitted[j].ops) : j \in 1..Len(submitted)}

(***************************************************************************)
(* C13. A failure of one batch's bulk write never aborts the job: unless   *)
(* the cursor itself fails, every batch of the collection is submitted,    *)
(* and every batch written successfully stays written.                     *)
(***************************************************************************)
C13_BatchFailureNeverAborts ==
    /\ (job_pc = "done" /\ job_status # "traceback" /\ ~CursorFailed) =>
           Len(submitted) = BatchesOf(total_docs)
    /\ \A j \in 1..Len(submitted) :
           submitted[j].outcome = "ok" => Ids(submitted[j].ops) \subseteq store

(***************************************************************************)
(* C14. When at least one batch failed, the final report of the job        *)
(* differs from the final report of a run of the same size in which every  *)
(* batch succeeded.                                                        *)
(***************************************************************************)
C14_FailuresReportedAtEnd ==
    (job_pc = "done" /\ SomeBatchFailed /\ FinalReport # <<>>) =>
        FinalReport # CompletedLines(operations)

(***************************************************************************)
(* C18. The pending batch never holds more than 1000 updates; every bulk   *)
(* write submitted holds between 1 and 1000 updates; once the loop has run *)
(* to the end of the cursor and the remaining operations were submitted,   *)
(* every document read is in exactly one submitted bulk write, and every   *)
(* update sets ACL1, ACL2 and ACL3.                                        *)
(***************************************************************************)
C18_BoundedBatches ==
    /\ Len(batch_operations) <= 1000
    /\ \A j \in 1..Len(submitted) :
           /\ Len(submitted[j].ops) >= 1
           /\ Len(submitted[j].ops) <= 1000
    /\ LoopCompleted =>
           /\ SubmittedCount(Len(submitted)) = total_docs
           /\ SubmittedIds = 1..operations
           /\ \A j \in 1..Len(submitted) : \A i \in 1..Len(submitted[j].ops) :
                  submitted[j].ops[i].set = {"ACL1", "ACL2", "ACL3"}

C18_Witness ==
    /\ LoopCompleted
    /\ Len(submitted) = 3
    /\ Len(submitted[3].ops) = 1
    /\ submitted[1].outcome = "BulkWriteError"
    /\ submitted[2].outcome = "ok"

(***************************************************************************)
(* 2_create_indexes.py: create_search_index, create_vector_index,          *)
(* wait_for_indexes and main.  The backend keeps one index per name; a     *)
(* listing or a create request either returns or raises.                   *)
(***************************************************************************)
MaxRuns == 2

MaxListing == 3

MaxClock == 720

search_index_name == "search_ACLs"

vector_index_name == "vector_ACLs"

\* the names wait_for_indexes looks at
WaitedNames == {"search_ACLs", "vector_ACLs"}

IndexFns == {"create_search_index", "create_vector_index"}

NameOf(fn) == IF fn = "create_search_index" THEN search_index_name ELSE vector_index_name

\* the type the existence check of each function compares with
KindOf(fn) == IF fn = "create_search_index" THEN "search" ELSE "vectorSearch"

Index(n, t, q) == [name |-> n, type |-> t, queryable |-> q]

\* what the collection may hold under one name before the script starts
PerName(n, own, other) ==
    {{}, {Index(n, own, FALSE)}, {Index(n, own, TRUE)}, {Index(n, other, TRUE)}}

Backends ==
    {a \cup b \cup c :
        a \in PerName(search_index_name, "search", "vectorSearch"),
        b \in PerName(vector_index_name, "vectorSearch", "search"),
        c \in {{}, {Index("default", "search", FALSE)}}}

ListOutcomes == {"ok", "error"}

\* answers of the backend to a create request: accepted, or an error with its
\* reason and its message (as characters)
Accepted == [reason |-> "accepted", text |-> <<>>]

\* the messages are sequences of characters
DuplicateIndexText ==
    <<"D", "u", "p", "l", "i", "c", "a", "t", "e", " ", "I", "n", "d", "e", "x">>

IndexAlreadyExistsText ==
    <<"I", "n", "d", "e", "x", " ", "A", "l", "r", "e", "a", "d", "y", " ",
      "E", "x", "i", "s", "t", "s">>

NotAuthorizedText ==
    <<"n", "o", "t", " ", "a", "u", "t", "h", "o", "r", "i", "z", "e", "d">>

ExistsErrors ==
    {[reason |-> "already_exists", text |-> DuplicateIndexText],
     [reason |-> "already_exists", text |-> IndexAlreadyExistsText]}

\* "duplicate field in index definition": the definition is rejected
DuplicateFieldText ==
    <<"d", "u", "p", "l", "i", "c", "a", "t", "e", " ", "f", "i", "e",
      "l", "d", " ", "i", "n", " ", "i", "n", "d", "e", "x", " ", "d",
      "e", "f", "i", "n", "i", "t", "i", "o", "n">>

\* errors of another reason than an existing index: the message of one holds
\* none of the phrases the handler looks for, the message of the other does
OtherErrors ==
    {[reason |-> "other", text |-> NotAuthorizedText],
     [reason |-> "other", text |-> DuplicateFieldText]}

IndexKinds == {"search", "vectorSearch"}

\* the collection when the create request arrives: as the existence check saw
\* it, or with an index of the name created meanwhile by another client
BackendAtCreate(b, n) ==
    {b} \cup (IF \E i \in b : i.name = n
              THEN {}
              ELSE {b \cup {Index(n, t, FALSE)} : t \in IndexKinds})

\* index names are unique in a collection whatever the type of the index
BackendAnswers(b, n) ==
    IF \E i \in b : i.name = n THEN ExistsErrors \cup OtherErrors
                               ELSE {Accepted} \cup OtherErrors

\* str.lower() on one character: the upper-case letters map to lower case
UpperCase ==
    <<"A", "B", "C", "D", "E", "F", "G", "H", "I", "J", "K", "L", "M",
      "N", "O", "P", "Q", "R", "S", "T", "U", "V", "W", "X", "Y", "Z">>

LowerCase ==
    <<"a", "b", "c", "d", "e", "f", "g", "h", "i", "j", "k", "l", "m",
      "n", "o", "p", "q", "r", "s", "t", "u", "v", "w", "x", "y", "z">>

LowerChar(c) ==
    IF \E k \in 1..26 : UpperCase[k] = c
    THEN LowerCase[CHOOSE k \in 1..26 : UpperCase[k] = c]
    ELSE c

\* str(e).lower()
Lower(text) == [i \in 1..Len(text) |-> LowerChar(text[i])]

AlreadyExistsPhrase ==
    <<"a", "l", "r", "e", "a", "d", "y", " ", "e", "x", "i", "s", "t", "s">>

DuplicatePhrase == <<"d", "u", "p", "l", "i", "c", "a", "t", "e">>

\* phrase in text
Contains(text, phrase) ==
    \E k \in 0..(Len(text) - Len(phrase)) :
        \A i \in 1..Len(phrase) : text[k + i] = phrase[i]

\* "already exists" in str(e).lower() or "duplicate" in str(e).lower()
AlreadyExistsError(text) ==
    \/ Contains(Lower(text), AlreadyExistsPhrase)
    \/ Contains(Lower(text), DuplicatePhrase)

ExistsInListing_never(listing, n, t) == FALSE

\* the loop of the existence check: idx.get('name') == name and idx.get('type') == type
ExistsInListing(listing, n, t) ==
    \E idx \in listing : idx.name = n /\ idx.type = t

\* the value returned after a create request was answered
CreateResult(answer) ==
    IF answer.reason = "accepted" THEN TRUE ELSE AlreadyExistsError(answer.text)

\* the backend after a create request
BackendAfter(b, n, t, answer) ==
    IF answer.reason = "accepted" THEN b \cup {Index(n, t, FALSE)} ELSE b

\* timeout_seconds = timeout_minutes * 60
timeout_seconds(minutes) == minutes * 60

\* the loop condition, negated
TimedOut(e, minutes) == ~(e < timeout_seconds(minutes))

\* time.sleep(30)
AfterSleep(e) == e + 30

\* all_ready after the for loop over the listing
AllReady(listing) ==
    \A idx \in listing : idx.name \in WaitedNames => idx.queryable

\* a Python bool as the model stores it in a variable
Bool(b) == IF b THEN "True" ELSE "False"

DefaultTimeoutMinutes == 10

\* the seconds a call of list_search_indexes takes in the runs of the model:
\* up to MaxListing tens of seconds
ListingSeconds == {10 * k : k \in 0..MaxListing}

TimeoutChoices == {0, 1, DefaultTimeoutMinutes}

SearchAndGenIdle == SearchIdle /\ GenIdle /\ FusionIdle /\ JobIdle

\* the script is started (main), or wait_for_indexes is called on a collection
InitIndex ==
    /\ SearchAndGenIdle
    /\ entry \in {"main", "wait_for_indexes"}
    /\ idx_pc = IF entry = "main" THEN "connect" ELSE "wait"
    /\ run = 1
    /\ backend \in Backends
    /\ calls = <<>>
    /\ create_requests = <<>>
    /\ search_success = "unset"
    /\ vector_success = "unset"
    /\ timeout_minutes \in IF entry = "main" THEN {DefaultTimeoutMinutes}
                                             ELSE TimeoutChoices
    /\ elapsed = 0
    /\ polled = {}
    /\ last_poll = "none"
    /\ wait_result = "unset"

\* main: connect and count the documents; a failure ends main
IdxConnect ==
    /\ idx_pc = "connect"
    /\ \E o \in {"ok", "fail"} :
           idx_pc' = IF o = "ok" THEN "create_search" ELSE "done"
    /\ UNCHANGED <<entry, run, backend, calls, create_requests, search_success,
                   vector_success, timeout_minutes, elapsed, polled, last_poll,
                   wait_result>>
    /\ UNCHANGED nonIndexVars

\* one call of create_search_index / create_vector_index: the existence check,
\* then at most one create request (create_search_indexes, or create_search_index
\* when SearchIndexModel cannot be imported); the record of the call and its result
CreateCall(fn, lo, bc, answer) ==
    LET n == NameOf(fn)
        t == KindOf(fn)
        found == lo = "ok" /\ ExistsInListing(backend, n, t)
        after == IF found THEN backend ELSE BackendAfter(bc, n, t, answer)
    IN  [run |-> run, fn |-> fn, listing |-> lo, before |-> backend,
         requested |-> ~found,
         answer |-> IF found THEN Accepted ELSE answer,
         result |-> IF found THEN TRUE ELSE CreateResult(answer),
         after |-> after]

RequestsAfter(c) ==
    IF c.requested
    THEN Append(create_requests,
                [run |-> c.run, fn |-> c.fn, name |-> NameOf(c.fn),
                 type |-> KindOf(c.fn), answer |-> c.answer])
    ELSE create_requests

\* search_success = create_search_index(collection)
IdxCreateSearch ==
    /\ idx_pc = "create_search"
    /\ \E lo \in ListOutcomes, bc \in BackendAtCreate(backend, search_index_name) :
       \E answer \in BackendAnswers(bc, search_index_name) :
           LET c == CreateCall("create_search_index", lo, bc, answer)
           IN  /\ calls' = Append(calls, c)
               /\ create_requests' = RequestsAfter(c)
               /\ backend' = c.after
               /\ search_success' = Bool(c.result)
    /\ idx_pc' = "create_vector"
    /\ UNCHANGED <<entry, run, vector_success, timeout_minutes, elapsed, polled,
                   last_poll, wait_result>>
    /\ UNCHANGED nonIndexVars

\* vector_success = create_vector_index(collection)
IdxCreateVector ==
    /\ idx_pc = "create_vector"
    /\ \E lo \in ListOutcomes, bc \in BackendAtCreate(backend, vector_index_name) :
       \E answer \in BackendAnswers(bc, vector_index_name) :
           LET c == CreateCall("create_vector_index", lo, bc, answer)
           IN  /\ calls' = Append(calls, c)
               /\ create_requests' = RequestsAfter(c)
               /\ backend' = c.after
               /\ vector_success' = Bool(c.result)
    /\ idx_pc' = "created"
    /\ UNCHANGED <<entry, run, search_success, timeout_minutes, elapsed, polled,
                   last_poll, wait_result>>
    /\ UNCHANGED nonIndexVars

\* if search_success and vector_success: main calls wait_for_indexes, else it
\* reports and closes.  The records of the two calls end with index creation.
IdxCreated ==
    /\ idx_pc = "created"
    /\ idx_pc' = IF search_success = "True" /\ vector_success = "True" THEN "wait" ELSE "done"
    /\ elapsed' = 0
    /\ calls' = <<>>
    /\ create_requests' = <<>>
    /\ UNCHANGED <<entry, run, backend, search_success, vector_success,
                   timeout_minutes, polled, last_poll, wait_result>>
    /\ UNCHANGED nonIndexVars

\* one iteration of the while loop of wait_for_indexes: the listing call
\* returns or raises after d seconds, or does not return
IdxWaitPoll(lo, d) ==
    /\ idx_pc = "wait"
    /\ ~TimedOut(elapsed, timeout_minutes)
    /\ IF lo = "hang"
       THEN /\ idx_pc' = "listing"
            /\ UNCHANGED <<polled, elapsed, last_poll, wait_result>>
       ELSE IF lo = "error"
       THEN /\ last_poll' = "error"
            /\ wait_result' = "False"
            /\ idx_pc' = "done"
            /\ elapsed' = elapsed + d
            /\ UNCHANGED polled
       ELSE /\ polled' = backend
            /\ IF AllReady(backend)
               THEN /\ last_poll' = "ready"
                    /\ wait_result' = "True"
                    /\ idx_pc' = "done"
                    /\ elapsed' = elapsed + d
               ELSE /\ last_poll' = "notready"
                    /\ elapsed' = AfterSleep(elapsed + d)
                    /\ UNCHANGED <<wait_result, idx_pc>>
    /\ UNCHANGED <<entry, run, backend, calls, create_requests, search_success,
                   vector_success, timeout_minutes>>
    /\ UNCHANGED nonIndexVars

\* time passes while the listing call does not return: the run is followed
\* until its clock reads MaxClock
IdxClock ==
    /\ idx_pc = "listing"
    /\ elapsed < MaxClock
    /\ elapsed' = MaxClock
    /\ UNCHANGED <<idx_pc, entry, run, backend, calls, create_requests, search_success,
                   vector_success, timeout_minutes, polled, last_poll, wait_result>>
    /\ UNCHANGED nonIndexVars

\* the loop condition is false: "Timeout reached", return False
IdxWaitTimeout ==
    /\ idx_pc = "wait"
    /\ TimedOut(elapsed, timeout_minutes)
    /\ wait_result' = "False"
    /\ idx_pc' = "done"
    /\ UNCHANGED <<entry, run, backend, calls, create_requests, search_success,
                   vector_success, timeout_minutes, elapsed, polled, last_poll>>
    /\ UNCHANGED nonIndexVars

\* the backend finishes building an index while wait_for_indexes polls
BackendBuilt ==
    /\ idx_pc = "wait"
    /\ \E idx \in backend :
           /\ ~idx.queryable
           /\ backend' = (backend \ {idx}) \cup {Index(idx.name, idx.type, TRUE)}
    /\ UNCHANGED <<idx_pc, entry, run, calls, create_requests, search_success,
                   vector_success, timeout_minutes, elapsed, polled, last_poll,
                   wait_result>>
    /\ UNCHANGED nonIndexVars

\* the script is run again on the same collection
IdxRerun ==
    /\ idx_pc = "done"
    /\ entry = "main"
    /\ run < MaxRuns
    /\ run' = run + 1
    /\ idx_pc' = "connect"
    /\ search_success' = "unset"
    /\ vector_success' = "unset"
    /\ elapsed' = 0
    /\ polled' = {}
    /\ last_poll' = "none"
    /\ wait_result' = "unset"
    /\ calls' = <<>>
    /\ create_requests' = <<>>
    /\ UNCHANGED <<entry, backend, timeout_minutes>>
    /\ UNCHANGED nonIndexVars

NextIndex ==
    \/ IdxConnect
    \/ IdxCreateSearch
    \/ IdxCreateVector
    \/ IdxCreated
    \/ \E d \in ListingSeconds : IdxWaitPoll("ok", d)
    \/ \E d \in ListingSeconds : IdxWaitPoll("error", d)
    \/ IdxWaitPoll("hang", 0)
    \/ IdxClock
    \/ IdxWaitTimeout
    \/ BackendBuilt
    \/ IdxRerun

SpecIndex == InitIndex /\ [][NextIndex]_vars

\* time advances, and the loop of wait_for_indexes takes its next step whenever
\* it is at the loop condition
SpecIndexFair ==
    /\ InitIndex
    /\ [][NextIndex]_vars
    /\ WF_vars((\E d \in ListingSeconds : IdxWaitPoll("ok", d)) \/ IdxWaitTimeout)
    /\ WF_vars(IdxClock)

(***************************************************************************)
(* Properties of 2_create_indexes.py                                       *)
(***************************************************************************)
\* the listing the call read contained an index of its name and kind
ListingHad(c) ==
    /\ c.listing = "ok"
    /\ \E idx \in c.before : idx.name = NameOf(c.fn) /\ idx.type = KindOf(c.fn)

RequestsOf(fn) == {k \in 1..Len(create_requests) : create_requests[k].fn = fn}

\* C15: when the listing already contains an index of the same name and the
\* same kind, the create function returns success without submitting a create
\* request, and the backend's set of indexes is left as it was (also when the
\* script is run a second time).
C15_IdempotentCreate ==
    \A j \in 1..Len(calls) :
        ListingHad(calls[j]) =>
            /\ calls[j].result = TRUE
            /\ ~calls[j].requested
            /\ calls[j].after = calls[j].before
            /\ RequestsOf(calls[j].fn) = {}

C15_Witness ==
    /\ run = 2
    /\ Len(calls) = 2
    /\ ListingHad(calls[1])
    /\ ListingHad(calls[2])
    /\ create_requests = <<>>
    /\ backend = {Index(search_index_name, "search", FALSE),
                  Index(vector_index_name, "vectorSearch", FALSE)}

\* C16: when the backend answers the create request with an error whose reason
\* is not "already exists", the function returns failure, and a call submits at
\* most one create request for its index (no retry).
C16_CreateErrorIsFailure ==
    /\ \A j \in 1..Len(calls) :
           (calls[j].requested /\ calls[j].answer.reason = "other") =>
               calls[j].result = FALSE
    /\ \A fn \in IndexFns : Cardinality(RequestsOf(fn)) <= 1
    /\ Len(create_requests) <= Len(calls)

\* C17: wait_for_indexes reports success only if each of search_ACLs and
\* vector_ACLs is present in the polled listing and reports queryable.
C17_SuccessMeansAllReady ==
    wait_result = "True" =>
        \A n \in WaitedNames : \E idx \in polled : idx.name = n /\ idx.queryable

\* C19: a create function returns success only if an index of the requested
\* name and kind exists when it returns or its create request was accepted.
C19_SuccessMeansIndexOfKind ==
    \A j \in 1..Len(calls) :
        calls[j].result = TRUE =>
            \/ \E idx \in calls[j].after :
                   idx.name = NameOf(calls[j].fn) /\ idx.type = KindOf(calls[j].fn)
            \/ calls[j].requested /\ calls[j].answer.reason = "accepted"

\* C20: wait_for_indexes always returns when time advances; it returns failure
\* once the timeout has elapsed without the indexes being ready, and it stops
\* polling and returns failure as soon as a status check raises.
C20_WaitReturns ==
    /\ [](wait_result = "False" =>
              (last_poll = "error" \/ TimedOut(elapsed, timeout_minutes)))
    /\ [](last_poll = "error" => (wait_result = "False" /\ idx_pc = "done"))
    /\ [][(idx_pc = "wait" /\ TimedOut(elapsed, timeout_minutes)) =>
              wait_result' = "False"]_<<idx_pc, wait_result>>
    /\ (idx_pc = "wait") ~> (idx_pc = "done" /\ wait_result \in {"True", "False"})

====
